---- MODULE Spec2Model ----
(***************************************************************************)
(* MeTransfer: the gallery storage and derived-artifact subsystem of the   *)
(* Express server (routes, middleware, the galleries Map, galleries.json    *)
(* and the four on-disk trees uploads/, thumbnails/, backgrounds/ and       *)
(* og-cache/).                                                              *)
(*                                                                         *)
(* Strings that the code inspects character by character (gallery ids,     *)
(* filenames, event names) are sequences of one-character strings.         *)
(* File contents are opaque tokens ("img1", "img2" decode as images,       *)
(* "junk" does not); a derived file records what it was derived from.      *)
(* Every step of the event loop is one action: a synchronous handler is a  *)
(* single step, a handler with an await (or multer's streaming upload) is  *)
(* split at its suspension points and parked in inflight in between.       *)
(***************************************************************************)
EXTENDS Naturals, Sequences, FiniteSets, TLC

\* ---------------------------------------------------------------- bounds

\* files sent in one upload request
MaxFiles == 2
\* requests suspended at an await at the same time (interleaved specification)
MaxInFlight == 2
\* entries of the files array of one record
MaxIndexed == 2
\* state-changing requests (and restarts, and changes made by hand) in one run
MaxRequests == 2
\* characters of the originalname of an uploaded file (specification of the names)
MaxNameLen == 3

\* ------------------------------------------------------------ characters

Digit == {"0", "1", "2", "3", "4", "5", "6", "7", "8", "9"}
Lower == {"a", "b", "c", "d", "e", "f", "g", "h", "i", "j", "k", "l", "m",
          "n", "o", "p", "q", "r", "s", "t", "u", "v", "w", "x", "y", "z"}
Upper == {"A", "B", "C", "D", "E", "F", "G", "H", "I", "J", "K", "L", "M",
          "N", "O", "P", "Q", "R", "S", "T", "U", "V", "W", "X", "Y", "Z"}
\* [0-9a-f] under the regex flag i
HexChar == Digit \cup {"a", "b", "c", "d", "e", "f"} \cup {"A", "B", "C", "D", "E", "F"}
\* [89ab] under the regex flag i
VariantChar == {"8", "9", "a", "b", "A", "B"}
Whitespace == {" "}

Rep(c, n) == [i \in 1..n |-> c]

StartsWith(s, p) == Len(p) <= Len(s) /\ SubSeq(s, 1, Len(p)) = p

\* UUID_V4_REGEX.test(s)
IsUuidV4(s) ==
    /\ Len(s) = 36
    /\ \A i \in 1..36 :
          IF i \in {9, 14, 19, 24} THEN s[i] = "-"
          ELSE IF i = 15 THEN s[i] = "4"
          ELSE IF i = 20 THEN s[i] \in VariantChar
          ELSE s[i] \in HexChar

\* an 8-4-4-4-12 string of the character c, with version digit v and variant digit r
MkId(c, v, r) ==
    Rep(c, 8) \o <<"-">> \o Rep(c, 4) \o <<"-", v>> \o Rep(c, 3) \o <<"-", r>>
        \o Rep(c, 3) \o <<"-">> \o Rep(c, 12)

\* ------------------------------------------------------------- universes

idA == MkId("a", "4", "8")
idB == MkId("b", "4", "9")
\* well-formed apart from the version digit, as a version-1 UUID is
idV1 == MkId("c", "1", "8")

\* every name that is sent as :galleryId or lies under uploads/
AllNames == {idA, idB, idV1}
\* fs.readdirSync order of those names
NameOrder == <<idA, idB, idV1>>
NoName == <<"/">>

DotJpg == <<".", "j", "p", "g">>

\* file.originalname of an uploaded photo
RawNames == {<<"a">>, <<"*">>, <<"_">>}
\* [^a-zA-Z0-9._-] is replaced
SafeChar == Lower \cup Upper \cup Digit \cup {".", "_", "-"}

\* a replacement that lets the path separator through
SanitizeKeepingSlash(raw) ==
    [i \in 1..Len(raw) |-> IF raw[i] \in SafeChar \cup {"/"} THEN raw[i] ELSE "_"]
\* file.originalname.replace(/[^a-zA-Z0-9._-]/g, '_')
Sanitize(raw) == [i \in 1..Len(raw) |-> IF raw[i] \in SafeChar THEN raw[i] ELSE "_"]

StoredNames == {Sanitize(r) : r \in RawNames}
\* :filename of a request: the stored names, the name of no file, and an
\* originalname that was stored under another name
ReqFiles == StoredNames \cup {<<"z">>, <<"*">>}
\* a dot file, as a file manager leaves one in a directory that is copied by hand
DotFile == <<".", "h">>
\* every name a file under uploads/<id>/ has
FileNames == ReqFiles \cup {DotFile}
\* fs.readdirSync order of the files of one gallery
FileOrder == <<DotFile, <<"_">>, <<"a">>, <<"z">>>>

PhotoBytes == {"img1", "junk"}
BgBytes == {"img1", "img2", "junk"}
Decodable(b) == b \in {"img1", "img2"}

AdminPassword == "secret"
\* what a request carries: the X-Admin-Password header and the password query
\* parameter, each absent ("") or a string
Passwords == [header : {"", "secret", "wrong"}, query : {"", "secret", "wrong"}]

UntitledEvent == <<"U", "n", "t", "i", "t", "l", "e", "d", " ", "E", "v", "e", "n", "t">>
\* req.body.eventName: absent, or a string (a short one, a blank, and one of 202
\* characters that starts with a blank)
NameInputs ==
    {[given |-> FALSE, text |-> <<>>], [given |-> TRUE, text |-> <<"E">>],
     [given |-> TRUE, text |-> <<" ">>],
     [given |-> TRUE, text |-> <<" ">> \o [i \in 1..200 |-> "x"] \o <<"y">>]}

\* LOGO_EXTS, in the order findLogoFile tries them
LOGO_EXTS ==
    <<<<".", "s", "v", "g">>, <<".", "p", "n", "g">>, <<".", "j", "p", "g">>,
      <<".", "j", "p", "e", "g">>, <<".", "g", "i", "f">>, <<".", "w", "e", "b", "p">>>>

\* String.prototype.toLowerCase over the letters A-Z
ToLowerCase(s) ==
    LET up == <<"A", "B", "C", "D", "E", "F", "G", "H", "I", "J", "K", "L", "M",
                "N", "O", "P", "Q", "R", "S", "T", "U", "V", "W", "X", "Y", "Z">>
        lo == <<"a", "b", "c", "d", "e", "f", "g", "h", "i", "j", "k", "l", "m",
                "n", "o", "p", "q", "r", "s", "t", "u", "v", "w", "x", "y", "z">>
    IN [i \in 1..Len(s) |->
           IF \E k \in 1..26 : up[k] = s[i] THEN lo[CHOOSE k \in 1..26 : up[k] = s[i]] ELSE s[i]]

\* path.extname of a name without separators: from its last '.' on, and '' when it
\* has none or only the one it starts with
extname(s) ==
    LET dots == {i \in 2..Len(s) : s[i] = "."}
    IN IF dots = {} THEN <<>>
       ELSE SubSeq(s, CHOOSE i \in dots : \A j \in dots : j <= i, Len(s))

\* ------------------------------------------------------------ file values

None == [fmt |-> "none", from |-> "none", of |-> "none"]
\* sharp(src).resize(400).jpeg({quality: 80})
Thumb(b) == [fmt |-> "thumb400", from |-> "orig", of |-> b]
\* sharp(buffer).resize(2400, null, {withoutEnlargement: true}).jpeg({quality: 85})
Normalized(b) == [fmt |-> "bg2400", from |-> "upload", of |-> b]
\* sharp(sourceFile).resize(1200, 630, {fit: 'cover'}).jpeg({quality: 80})
OgOf(from, b) == [fmt |-> "og1200x630", from |-> from, of |-> b]
\* an original, as sendFile / download sends it
Orig(b) == [fmt |-> "original", from |-> "orig", of |-> b]

NoFiles == [f \in FileNames |-> "none"]
AbsentEntry == [kind |-> "absent", files |-> NoFiles]
FileEntry == [kind |-> "file", files |-> NoFiles]
DirEntry(fs) == [kind |-> "dir", files |-> fs]

NoThumbs == [f \in FileNames |-> None]
AbsentThumbDir == [exists |-> FALSE, files |-> NoThumbs]
EmptyThumbDir == [exists |-> TRUE, files |-> NoThumbs]

VARIABLES
    galleries,    \* the Map galleries: id -> record
    persisted,    \* galleries.json
    uploads,      \* uploads/<name>: absent, a regular file, or a directory of originals
    thumbnails,   \* thumbnails/<id>/<filename>.jpg
    backgrounds,  \* backgrounds/<id>.jpg
    ogcache,      \* og-cache/<id>.jpg
    logo,         \* logo<ext> in DATA_DIR, for each extension of LOGO_EXTS
    inflight,     \* requests and background jobs suspended at an await
    allocated,    \* the ids uuidv4() has returned so far
    budget,       \* state-changing requests the run may still start
    last          \* what the last step did: its route, its response, its I/O

vars == <<galleries, persisted, uploads, thumbnails, backgrounds, ogcache, logo, inflight, allocated,
          budget, last>>
fsVars == <<uploads, thumbnails, backgrounds, ogcache>>
idxVars == <<galleries, persisted>>

\* ------------------------------------------------------------ directories

\* fs.existsSync(path.join(DATA_DIR, 'uploads', id))
UploadExists(up, id) == up[id].kind # "absent"
IsDirectory(up, id) == up[id].kind = "dir"

\* fs.readdirSync(galleryPath) of a directory
Readdir(entry) == SelectSeq(FileOrder, LAMBDA f : entry.files[f] # "none")
\* .filter(f => !f.startsWith('.'))
NotHidden(names) == SelectSeq(names, LAMBDA f : ~StartsWith(f, <<".">>))
\* a listing that keeps the dot files
ListEverything(entry) == Readdir(entry)
ListOriginals(entry) == NotHidden(Readdir(entry))

\* fs.readdirSync(backgroundsDir).find(f => f.startsWith(galleryId))
BgFind(bg, id) ==
    LET hits == SelectSeq(NameOrder, LAMBDA n : bg[n] # None /\ StartsWith(n \o DotJpg, id))
    IN IF hits = <<>> THEN NoName ELSE Head(hits)

\* ------------------------------------------------------- the metadata index

Record(id, name, created, files, bg) ==
    [id |-> id, eventName |-> name, created |-> created, files |-> files, background |-> bg]

NoGalleries == [i \in {} |-> None]

\* a delete that leaves the Map as it is
MapDeleteNothing(g, id) == g
MapDelete(g, id) == [i \in (DOMAIN g) \ {id} |-> g[i]]
MapSet(g, id, rec) == [i \in (DOMAIN g) \cup {id} |-> IF i = id THEN rec ELSE g[i]]

\* fs.writeFileSync(GALLERIES_FILE, JSON.stringify(Array.from(galleries.values())))
saveGalleries(g) == [kind |-> "ok", data |-> {g[i] : i \in DOMAIN g}]

\* JSON.parse(...).forEach(g => galleries.set(g.id, g)) inside try: a missing file,
\* a text that does not parse ("unparsable") and a value without forEach
\* ("notarray") leave the Map empty; of an array with a null element ("nullrecord")
\* the records before the null (p.data) are in the Map when g.id throws
loadGalleries(p) ==
    IF p.kind \in {"ok", "nullrecord"}
    THEN [i \in {r.id : r \in p.data} |-> CHOOSE r \in p.data : r.id = i]
    ELSE NoGalleries

\* a pass that does not look whether the Map has the entry already
NeedsRecordAgain(up, g, entry) == IsUuidV4(entry) /\ IsDirectory(up, entry)
\* case 2 of reconcileGalleries: the entries of uploads/ that get a record
NeedsRecord(up, g, entry) ==
    /\ IsUuidV4(entry)
    /\ entry \notin DOMAIN g
    /\ IsDirectory(up, entry)

\* case 1 of reconcileGalleries: the entries that stay
HasUploadsPath(up, id) == UploadExists(up, id)

reconcileGalleries(g, up) ==
    LET kept == {id \in DOMAIN g : HasUploadsPath(up, id)}
        g1 == [i \in kept |-> g[i]]
        found == {e \in AllNames : NeedsRecord(up, g1, e)}
        g2 == [i \in kept \cup found |->
                 IF i \in kept THEN g1[i]
                 ELSE Record(i, UntitledEvent, "birthtime", ListOriginals(up[i]), <<>>)]
    IN [galleries |-> g2, changed |-> (kept # DOMAIN g) \/ (found # {})]

\* ------------------------------------------------------------- middleware

\* a middleware that lets every request through
requireAuthNot(pw) == TRUE
\* requireAuth: req.headers['x-admin-password'] || req.query.password is ADMIN_PASSWORD;
\* a request with neither carries undefined, which is no string
requireAuth(pw) ==
    LET password == IF pw.header # "" THEN pw.header ELSE pw.query
    IN password # "" /\ password = AdminPassword

\* a validator that only looks at the length
validateGalleryIdByLength(id) == Len(id) = 36
validateGalleryId(id) == IsUuidV4(id)

\* a validator that lets every name through
validateFilenameNot(f) == TRUE
\* SAFE_FILENAME_RE.test(filename)
validateFilename(f) == Len(f) >= 1 /\ \A i \in 1..Len(f) : f[i] \in SafeChar

\* String(s).trim()
RECURSIVE TrimLeft(_)
TrimLeft(s) == IF s # <<>> /\ Head(s) \in Whitespace THEN TrimLeft(Tail(s)) ELSE s
RECURSIVE TrimRight(_)
TrimRight(s) ==
    IF s # <<>> /\ s[Len(s)] \in Whitespace THEN TrimRight(SubSeq(s, 1, Len(s) - 1)) ELSE s
Trim(s) == TrimRight(TrimLeft(s))
\* .substring(0, n)
\* a substring that keeps the whole string
SubstringAll(s, n) == s
Substring0(s, n) == IF Len(s) <= n THEN s ELSE SubSeq(s, 1, n)

\* (String(req.body.eventName || 'Untitled Event')).trim().substring(0, 200)
EventNameOf(input) ==
    Substring0(Trim(IF input.given /\ input.text # <<>> THEN input.text ELSE UntitledEvent), 200)

\* ------------------------------------------------------------ observation

Out(op, id, file, status, served, list, saves, gens) ==
    [op |-> op, id |-> id, file |-> file, status |-> status, served |-> served,
     list |-> list, saves |-> saves, gens |-> gens]

\* the event loop is between two steps
Idle == Out("idle", NoName, NoName, 0, None, <<>>, 0, 0)

\* a step that only answers
Reply(op, id, file, status, served, list) ==
    /\ last' = Out(op, id, file, status, served, list, 0, 0)
    /\ UNCHANGED <<galleries, persisted, uploads, thumbnails, backgrounds, ogcache, inflight,
                   allocated, budget>>

\* a state-changing request is started
Spend == budget > 0 /\ budget' = budget - 1

\* u is the universe of a specification: u.ids the ids clients send, u.pws their
\* credentials, u.names the event names they supply, u.files the file names they
\* ask for, u.gen the ids uuidv4() returns,
\* u.dirs the names of what people put under uploads/ by hand, and
\* u.conc whether requests interleave at their awaits; otherwise one request runs at
\* a time and its background jobs end before the next request starts
Ready(u) == last = Idle /\ (u.conc \/ inflight = {})
ReadyAsync(u) == Ready(u) /\ Cardinality(inflight) < MaxInFlight

Task(kind, id, file, done, bytes, n) ==
    [kind |-> kind, id |-> id, file |-> file, done |-> done, bytes |-> bytes, n |-> n]

\* ----------------------------------------------------------------- startup

\* a loop over LOGO_EXTS that removes nothing
UnlinkLogosNot(lg) == lg
\* for (const ext of LOGO_EXTS) if (fs.existsSync(p)) fs.unlinkSync(p): no logo<ext>
\* is left, whatever there was
UnlinkLogos(lg) == [i \in DOMAIN lg |-> "none"]

\* findLogoFile: the first logo<ext> that exists (its place in LOGO_EXTS), 0 for null
findLogoFile(lg) ==
    IF \E i \in 1..Len(LOGO_EXTS) : lg[i] # "none"
    THEN CHOOSE i \in 1..Len(LOGO_EXTS) : lg[i] # "none" /\ \A j \in 1..(i - 1) : lg[j] = "none"
    ELSE 0

\* what is on disk when the process starts
Disk(up, th, bg, og, idx, ids) ==
    [uploads |-> up, thumbnails |-> th, backgrounds |-> bg, ogcache |-> og,
     persisted |-> idx, allocated |-> ids, logo |-> [i \in 1..Len(LOGO_EXTS) |-> "none"]]

NoUploads == [n \in AllNames |-> AbsentEntry]
NoThumbDirs == [n \in AllNames |-> AbsentThumbDir]
NoBackgrounds == [n \in AllNames |-> None]
NoOgCache == [n \in AllNames |-> None]
NoIndexFile == [kind |-> "missing", data |-> {}]

\* a fresh installation
FreshDisk == Disk(NoUploads, NoThumbDirs, NoBackgrounds, NoOgCache, NoIndexFile, {})

OnePhoto(b) == DirEntry([NoFiles EXCEPT ![<<"a">>] = b])
IndexOf(rec) == [kind |-> "ok", data |-> {rec}]
RecA(bg) == Record(idA, <<"E">>, "now", <<<<"a">>>>, bg)

\* gallery idA was created with the photo a (decodable), named E; thumbnails were made
GalleryDisk ==
    Disk([NoUploads EXCEPT ![idA] = OnePhoto("img1")],
         [NoThumbDirs EXCEPT ![idA] = [EmptyThumbDir EXCEPT !.files[<<"a">>] = Thumb("img1")]],
         NoBackgrounds, NoOgCache, IndexOf(RecA(<<>>)), {idA})
\* ... then a background was set
BackgroundDisk ==
    [GalleryDisk EXCEPT !.backgrounds[idA] = Normalized("img1"),
                        !.persisted = IndexOf(RecA(idA \o DotJpg))]
\* ... then its social preview was requested
PreviewDisk == [BackgroundDisk EXCEPT !.ogcache[idA] = OgOf("bg", "img1")]
\* the preview of a gallery without background comes from its first photo
PhotoPreviewDisk == [GalleryDisk EXCEPT !.ogcache[idA] = OgOf("orig", "img1")]
\* gallery idA was created with a photo that does not decode: no thumbnail came out
JunkDisk ==
    [GalleryDisk EXCEPT !.uploads[idA] = OnePhoto("junk"), !.thumbnails[idA] = EmptyThumbDir]
\* the directory of gallery idA was then removed by hand
StaleDisk == [GalleryDisk EXCEPT !.uploads[idA] = AbsentEntry]
\* ... or replaced by a regular file of the same name
ReplacedDisk == [GalleryDisk EXCEPT !.uploads[idA] = FileEntry]
\* a directory named like a gallery was copied into a fresh installation by hand
CopiedDisk == [FreshDisk EXCEPT !.uploads[idA] = OnePhoto("img1")]

\* what galleries.json of the gallery of GalleryDisk is after a save that was cut
\* short, or after somebody edited it: a text that does not parse, a JSON value that
\* is no array, the array of the record and null, an array of a record without id
CorruptIndexes ==
    {[kind |-> "unparsable", data |-> {}], [kind |-> "notarray", data |-> {}],
     [kind |-> "nullrecord", data |-> {RecA(<<>>)}], [kind |-> "noid", data |-> {}]}

\* the installations the process is started over: each is what earlier runs of the
\* server (and the hands of its operator) leave on disk; the last one is a fresh
\* installation into which a directory whose name is no UUID-v4 token was copied
Installations ==
    {FreshDisk, GalleryDisk, BackgroundDisk, PreviewDisk, PhotoPreviewDisk, JunkDisk,
     StaleDisk, ReplacedDisk, CopiedDisk, [FreshDisk EXCEPT !.uploads[idV1] = OnePhoto("img1")]}
    \cup {[GalleryDisk EXCEPT !.persisted = p] : p \in CorruptIndexes}

\* loadGalleries(); reconcileGalleries(); at the top level of the module: the Map,
\* galleries.json and the outcome. A record without id is stored under the key
\* undefined, and path.join(uploadsDir, undefined) in case 1 of the pass throws: the
\* process ends before app.listen()
Boot(p, up) ==
    LET r == reconcileGalleries(loadGalleries(p), up)
    IN IF p.kind = "noid"
       THEN [galleries |-> NoGalleries, persisted |-> p,
             last |-> Out("startup.crashed", NoName, NoName, 0, None, <<>>, 0, 0)]
       ELSE [galleries |-> r.galleries,
             persisted |-> IF r.changed THEN saveGalleries(r.galleries) ELSE p,
             last |-> Out("startup", NoName, NoName, 0, None, <<>>,
                          IF r.changed THEN 1 ELSE 0, 0)]

\* the state after construction over the installation d
Init ==
    \E d \in Installations :
       /\ galleries = Boot(d.persisted, d.uploads).galleries
       /\ persisted = Boot(d.persisted, d.uploads).persisted
       /\ uploads = d.uploads
       /\ thumbnails = d.thumbnails
       /\ backgrounds = d.backgrounds
       /\ ogcache = d.ogcache
       /\ logo = d.logo
       /\ inflight = {}
       /\ allocated = d.allocated
       /\ budget = MaxRequests
       /\ last = Boot(d.persisted, d.uploads).last

\* the process has ended: nothing runs until it is started again
Down == last.op \in {"startup.crashed", "zip.crashed", "rename.killed"}

\* the process (re)starts; whatever was suspended in the old process is gone
Startup ==
    /\ last = Idle \/ Down
    /\ UNCHANGED logo
    /\ galleries' = Boot(persisted, uploads).galleries
    /\ persisted' = Boot(persisted, uploads).persisted
    /\ last' = Boot(persisted, uploads).last
    /\ inflight' = {}
    /\ UNCHANGED <<fsVars, allocated>>
    /\ Spend

\* the response is flushed and the event loop takes the next event
Settle ==
    /\ last # Idle
    /\ UNCHANGED logo
    /\ ~Down
    /\ last' = Idle
    /\ UNCHANGED <<galleries, persisted, uploads, thumbnails, backgrounds, ogcache, inflight, allocated, budget>>

\* ------------------------------------------------------------------ logo

\* req.file of uploadLogo.single('logo'): none sent, or a part with its originalname,
\* whether it is longer than 5 MB, and its bytes
LogoInputs ==
    {[kind |-> "none", name |-> <<>>, tooBig |-> FALSE, bytes |-> "none"],
     [kind |-> "file", name |-> <<"l", ".", "s", "v", "g">>, tooBig |-> TRUE, bytes |-> "img1"]}
    \cup [kind : {"file"},
          name : {<<"l", ".", "P", "N", "G">>, <<"l", ".", "s", "v", "g">>, <<".", "p", "n", "g">>},
          tooBig : {FALSE}, bytes : {"img1", "img2"}]

\* GET /api/logo
GetLogo ==
    /\ last = Idle
    /\ inflight = {}
    /\ LET custom == findLogoFile(logo)
       IN IF custom # 0
          THEN Reply("logo.get", NoName, LOGO_EXTS[custom], 200,
                     [fmt |-> "logo", from |-> "custom", of |-> logo[custom]], <<>>)
          ELSE Reply("logo.get", NoName, LOGO_EXTS[1], 200,
                     [fmt |-> "logo", from |-> "public", of |-> "logo.svg"], <<>>)
    /\ UNCHANGED logo

\* POST /api/logo: requireAuth, uploadLogo.single('logo') (its filter refuses by
\* extension, its limit by size), then the handler
SetLogo(u) ==
    /\ Ready(u)
    /\ UNCHANGED <<galleries, persisted, fsVars, inflight, allocated>>
    /\ \E pw \in u.pws, file \in LogoInputs :
          LET ext == ToLowerCase(extname(file.name))
              answer(status) ==
                  /\ last' = Out("logo.set", NoName, NoName, status, None, <<>>, 0, 0)
                  /\ UNCHANGED <<logo, budget>>
          IN IF ~requireAuth(pw) THEN answer(401)
             ELSE IF file.kind = "none" THEN answer(400)
             ELSE IF ~\E i \in 1..Len(LOGO_EXTS) : LOGO_EXTS[i] = ext THEN answer(500)
             ELSE IF file.tooBig THEN answer(413)
             ELSE /\ logo' = [UnlinkLogos(logo) EXCEPT
                                 ![CHOOSE i \in 1..Len(LOGO_EXTS) : LOGO_EXTS[i] = ext] = file.bytes]
                  /\ last' = Out("logo.set", NoName, file.name, 200, None, <<file.bytes>>, 0, 0)
                  /\ Spend

\* DELETE /api/logo
ClearLogo(u) ==
    /\ Ready(u)
    /\ UNCHANGED <<galleries, persisted, fsVars, inflight, allocated>>
    /\ \E pw \in u.pws :
          IF ~requireAuth(pw)
          THEN /\ last' = Out("logo.clear", NoName, NoName, 401, None, <<>>, 0, 0)
               /\ UNCHANGED <<logo, budget>>
          ELSE /\ logo' = UnlinkLogos(logo)
               /\ last' = Out("logo.clear", NoName, NoName, 200, None, <<>>, 0, 0)
               /\ Spend

\* ------------------------------------------------- synchronous id routes

\* those of the trees in which there is something of the gallery: what a handler
\* that clears these trees removes
Found(id, trees) ==
    SelectSeq(trees,
              LAMBDA tree : CASE tree = "uploads" -> UploadExists(uploads, id)
                              [] tree = "backgrounds" -> BgFind(backgrounds, id) # NoName
                              [] tree = "thumbnails" -> thumbnails[id].exists
                              [] tree = "og-cache" -> ogcache[id] # None)

AllTrees == <<"uploads", "backgrounds", "thumbnails", "og-cache">>

\* DELETE /api/gallery/:galleryId
DeleteGallery(u) ==
    /\ Ready(u)
    /\ UNCHANGED logo
    /\ \E pw \in u.pws, id \in u.ids :
          IF ~requireAuth(pw) THEN Reply("delete", id, NoName, 401, None, <<>>)
          ELSE IF ~validateGalleryId(id) THEN Reply("delete", id, NoName, 400, None, <<>>)
          ELSE LET bgFile == BgFind(backgrounds, id)
               IN /\ uploads' = [uploads EXCEPT ![id] = AbsentEntry]
                  /\ backgrounds' = IF bgFile # NoName
                                    THEN [backgrounds EXCEPT ![bgFile] = None]
                                    ELSE backgrounds
                  /\ thumbnails' = [thumbnails EXCEPT ![id] = AbsentThumbDir]
                  /\ ogcache' = [ogcache EXCEPT ![id] = None]
                  /\ galleries' = MapDelete(galleries, id)
                  /\ persisted' = saveGalleries(galleries')
                  /\ last' = Out("delete", id, NoName, 200, None, Found(id, AllTrees), 1, 0)
                  /\ UNCHANGED <<inflight, allocated>>
                  /\ Spend

\* POST /api/gallery/:galleryId/rename
RenameGallery(u) ==
    /\ Ready(u)
    /\ UNCHANGED logo
    /\ \E pw \in u.pws, id \in u.ids, name \in u.names :
          IF ~requireAuth(pw) THEN Reply("rename", id, NoName, 401, None, <<>>)
          ELSE IF ~validateGalleryId(id) THEN Reply("rename", id, NoName, 400, None, <<>>)
          ELSE IF id \notin DOMAIN galleries THEN Reply("rename", id, NoName, 404, None, <<>>)
          ELSE /\ galleries' = [galleries EXCEPT ![id].eventName = EventNameOf(name)]
               /\ persisted' = saveGalleries(galleries')
               /\ last' = Out("rename", id, NoName, 200, None, galleries'[id].eventName, 1, 0)
               /\ UNCHANGED <<fsVars, inflight, allocated>>
               /\ Spend

\* POST /api/gallery/:galleryId/rename when the process is killed (or the machine
\* stops) inside fs.writeFileSync of saveGalleries: the file was opened with
\* truncation and holds the beginning of the new text
RenameKilled(u) ==
    /\ Ready(u)
    /\ UNCHANGED logo
    /\ \E id \in u.ids, name \in u.names :
          /\ validateGalleryId(id)
          /\ id \in DOMAIN galleries
          /\ galleries' = [galleries EXCEPT ![id].eventName = EventNameOf(name)]
          /\ persisted' = [kind |-> "unparsable", data |-> {}]
          /\ last' = Out("rename.killed", id, NoName, 0, None, <<>>, 1, 0)
          /\ inflight' = {}
          /\ UNCHANGED <<fsVars, allocated>>
          /\ Spend

\* GET /api/background/:galleryId and GET /api/gallery/:galleryId/background
GetBackground(u) ==
    /\ Ready(u)
    /\ UNCHANGED logo
    /\ \E id \in u.ids :
          IF ~validateGalleryId(id) THEN Reply("getBackground", id, NoName, 400, None, <<>>)
          ELSE LET bgFile == BgFind(backgrounds, id)
               IN IF bgFile # NoName
                  THEN Reply("getBackground", id, NoName, 200, backgrounds[bgFile], <<>>)
                  ELSE Reply("getBackground", id, NoName, 404, None, <<>>)

\* GET /api/gallery/:galleryId/photos
\* (readdirSync of something that is not a directory throws: the error handler answers)
ListPhotos(u) ==
    /\ Ready(u)
    /\ UNCHANGED logo
    /\ \E id \in u.ids :
          IF ~validateGalleryId(id) THEN Reply("photos", id, NoName, 400, None, <<>>)
          ELSE IF ~UploadExists(uploads, id) THEN Reply("photos", id, NoName, 404, None, <<>>)
          ELSE IF ~IsDirectory(uploads, id) THEN Reply("photos", id, NoName, 500, None, <<>>)
          ELSE Reply("photos", id, NoName, 200, None, ListOriginals(uploads[id]))

\* fs.existsSync(path.join(DATA_DIR, 'uploads', galleryId, filename))
OriginalExists(up, id, f) == IsDirectory(up, id) /\ up[id].files[f] # "none"

\* a :filename that path.join resolves away: '.' and '..'
DotPaths == {<<".">>, <<".", ".">>}

\* existsSync and sendFile / download of path.join(DATA_DIR, 'uploads', id, f) for f
\* in DotPaths: the path is uploads/<id> for '.' and uploads/ for '..' (list tells
\* which). sendFile of a directory ends with EISDIR, for which Express calls next():
\* no route matches and the default 404 page is sent
ServeDirectory(op, id, f, gens) ==
    LET resolved == IF f = <<".">> THEN <<"uploads", id>> ELSE <<"uploads">>
    IN IF f = <<".">> /\ ~UploadExists(uploads, id)
       THEN Out(op, id, f, 404, None, <<>>, 0, gens)
       ELSE IF f = <<".">> /\ ~IsDirectory(uploads, id)
       THEN Out(op, id, f, 200, [fmt |-> "original", from |-> "entry", of |-> "none"],
                resolved, 0, gens)
       ELSE Out(op, id, f, 404, [fmt |-> "html", from |-> "finalhandler", of |-> "none"],
                resolved, 0, gens)

\* sendFile / download of a file found under a name that starts with a dot: send
\* ignores dot files, the error (status 404) goes to the error handler
ServeFile(op, id, f, served, gens) ==
    IF StartsWith(f, <<".">>)
    THEN Out(op, id, f, 404, [fmt |-> "json", from |-> "error handler", of |-> "none"],
             <<>>, 0, gens)
    ELSE Out(op, id, f, 200, served, <<>>, 0, gens)

\* GET /api/gallery/:galleryId/download/:filename
DownloadPhoto(u) ==
    /\ Ready(u)
    /\ UNCHANGED logo
    /\ \E id \in u.ids, f \in u.files :
          IF ~validateGalleryId(id) THEN Reply("downloadPhoto", id, f, 400, None, <<>>)
          ELSE IF ~validateFilename(f) THEN Reply("downloadPhoto", id, f, 400, None, <<>>)
          ELSE /\ last' = IF f \in DotPaths
                          THEN ServeDirectory("downloadPhoto", id, f, 0)
                          ELSE IF ~OriginalExists(uploads, id, f)
                          THEN Out("downloadPhoto", id, f, 404, None, <<>>, 0, 0)
                          ELSE ServeFile("downloadPhoto", id, f,
                                         Orig(uploads[id].files[f]), 0)
               /\ UNCHANGED <<galleries, persisted, uploads, thumbnails, backgrounds,
                              ogcache, inflight, allocated, budget>>

\* GET /download/:galleryId and GET /preview/:galleryId
Page(u) ==
    /\ Ready(u)
    /\ UNCHANGED logo
    /\ \E id \in u.ids :
          IF ~validateGalleryId(id) THEN Reply("page", id, NoName, 400, None, <<>>)
          ELSE IF ~UploadExists(uploads, id) THEN Reply("page", id, NoName, 404, None, <<>>)
          ELSE Reply("page", id, NoName, 200, None,
                     IF id \in DOMAIN galleries THEN galleries[id].eventName ELSE <<>>)

\* GET /api/gallery/:galleryId/info
Info(u) ==
    /\ Ready(u)
    /\ UNCHANGED logo
    /\ \E id \in u.ids :
          IF ~validateGalleryId(id) THEN Reply("info", id, NoName, 400, None, <<>>)
          ELSE IF UploadExists(uploads, id) /\ ~IsDirectory(uploads, id)
          THEN Reply("info", id, NoName, 500, None, <<>>)
          ELSE Reply("info", id, NoName, 200,
                     IF BgFind(backgrounds, id) # NoName THEN backgrounds[BgFind(backgrounds, id)] ELSE None,
                     IF UploadExists(uploads, id) THEN ListOriginals(uploads[id]) ELSE <<>>)

\* GET /api/gallery/:galleryId/download: the handler lists the directory, sets the
\* headers, pipes the archive into the response and queues every listed file
\* (archive.file), then returns; the archiver works on after that
DownloadZip(u) ==
    /\ Ready(u)
    /\ UNCHANGED logo
    /\ \E id \in u.ids :
          IF ~validateGalleryId(id) THEN Reply("zip", id, NoName, 400, None, <<>>)
          ELSE IF ~UploadExists(uploads, id) THEN Reply("zip", id, NoName, 404, None, <<>>)
          ELSE IF ~IsDirectory(uploads, id) THEN Reply("zip", id, NoName, 500, None, <<>>)
          ELSE IF ListOriginals(uploads[id]) = <<>> THEN Reply("zip", id, NoName, 404, None, <<>>)
          ELSE /\ ReadyAsync(u)
               /\ inflight' = inflight \cup
                     {Task("zip", id, NoName, ListOriginals(uploads[id]), "stat",
                           Len(ListOriginals(uploads[id])))}
               /\ last' = Idle
               /\ UNCHANGED <<galleries, persisted, fsVars, allocated, budget>>

\* the archiver stats the queued files (fs.lstat): a file that is gone by then is
\* reported with the event 'warning', for which the handler has no listener, and
\* is left out of the archive; the others are queued to be read
ZipStat ==
    /\ last = Idle
    /\ UNCHANGED logo
    /\ \E t \in inflight :
          /\ t.kind = "zip"
          /\ t.bytes = "stat"
          /\ inflight' = (inflight \ {t}) \cup
                {[t EXCEPT !.bytes = "read",
                           !.done = SelectSeq(t.done,
                                              LAMBDA f : OriginalExists(uploads, t.id, f))]}
    /\ UNCHANGED <<galleries, persisted, fsVars, allocated, budget, last>>

\* the archiver reads the queued files into the response and finalizes; a file that
\* cannot be read raises the event 'error', whose listener calls
\* res.status(500).send({error: err.message}): that answers 500 when nothing of the
\* archive has been written yet, and throws when the headers are out (the exception
\* is caught nowhere: the process ends and the connection is cut)
ZipDone ==
    /\ last = Idle
    /\ UNCHANGED logo
    /\ \E t \in inflight :
          /\ t.kind = "zip"
          /\ t.bytes = "read"
          /\ LET gone == {k \in 1..Len(t.done) : ~OriginalExists(uploads, t.id, t.done[k])}
                 first == CHOOSE k \in gone : \A j \in gone : k <= j
             IN IF gone = {}
                THEN /\ last' = Out("zip", t.id, NoName, 200, None, t.done, 0, 0)
                     /\ inflight' = inflight \ {t}
                ELSE \/ /\ last' = Out("zip", t.id, NoName, 500,
                                        [fmt |-> "json", from |-> "err.message", of |-> t.done[first]],
                                        <<>>, 0, 0)
                        /\ inflight' = inflight \ {t}
                     \/ /\ last' = Out("zip.crashed", t.id, NoName, 200, None,
                                        SubSeq(t.done, 1, first - 1), 0, 0)
                        /\ inflight' = {}
    /\ UNCHANGED <<galleries, persisted, fsVars, allocated, budget>>

\* the client of a ZIP download goes away while the archiver reads a file: the
\* response closes, which unpipes the archive (archive.pipe(res)) and nothing more:
\* the handler listens to no 'close' and never calls archive.abort() or destroy().
\* What is queued either fits into the buffers of the archive stream, which then
\* reads every file to its end and closes it, or the stream fills up and stops
\* taking data from the file it is reading, whose descriptor stays open
ZipAbandon ==
    /\ last = Idle
    /\ UNCHANGED logo
    /\ \E t \in inflight :
          /\ t.kind = "zip"
          /\ t.bytes = "read"
          /\ t.done # <<>>
          /\ \/ inflight' = inflight \ {t}
             \/ inflight' = (inflight \ {t}) \cup {[t EXCEPT !.bytes = "paused"]}
    /\ UNCHANGED <<galleries, persisted, fsVars, allocated, budget, last>>

\* ------------------------------------------------------------ gallery list

\* the directories GET /api/galleries walks: fs.statSync(...).isDirectory()
ListedPaths(up) == SelectSeq(NameOrder, LAMBDA n : UploadExists(up, n))
ListedDirs(up) == SelectSeq(NameOrder, LAMBDA n : IsDirectory(up, n))

\* a listing that, like the pass at startup, skips names that are no UUID-v4 token
UnindexedUuid(up, g, n) == IsUuidV4(n) /\ IsDirectory(up, n) /\ n \notin DOMAIN g
\* a directory of uploads/ without a record gets one
Unindexed(up, g, n) == IsDirectory(up, n) /\ n \notin DOMAIN g

\* GET /api/galleries
ListGalleries(u) ==
    /\ Ready(u)
    /\ UNCHANGED logo
    /\ \E pw \in u.pws :
          IF ~requireAuth(pw) THEN Reply("list", NoName, NoName, 401, None, <<>>)
          ELSE LET fresh == {n \in AllNames : Unindexed(uploads, galleries, n)}
                   dirs == ListedDirs(uploads)
               IN /\ galleries' =
                        [i \in (DOMAIN galleries) \cup fresh |->
                           IF i \in fresh
                           THEN Record(i, UntitledEvent, "birthtime", ListOriginals(uploads[i]), <<>>)
                           ELSE galleries[i]]
                  /\ persisted' = IF fresh # {} THEN saveGalleries(galleries') ELSE persisted
                  /\ last' = Out("list", NoName, NoName, 200, None,
                                 [k \in 1..Len(dirs) |->
                                     [id |-> dirs[k],
                                      fileCount |-> Len(ListOriginals(uploads[dirs[k]]))]],
                                 Cardinality(fresh), 0)
                  /\ UNCHANGED <<fsVars, inflight, allocated>>
                  /\ Spend

\* ------------------------------------------------------- thumbnail generation

ThumbExists(th, id, f) == th[id].exists /\ th[id].files[f] # None

\* what await sharp(src).resize(400).jpeg().toFile(dest) leaves in thumbnails/:
\* the thumbnail, when the source is there and decodes and the directory still exists
SharpThumb(up, th, id, f) ==
    IF OriginalExists(up, id, f) /\ Decodable(up[id].files[f]) /\ th[id].exists
    THEN [th EXCEPT ![id].files[f] = Thumb(up[id].files[f])]
    ELSE th

\* a generateThumbnail without the early return
ThumbStartsAlways(th, id, f) == TRUE
\* generateThumbnail up to its await: TRUE when sharp is started
ThumbStarts(th, id, f) == ~ThumbExists(th, id, f)

\* if (!fs.existsSync(dir)) fs.mkdirSync(dir, {recursive: true}), for every started file
MkThumbDir(th, id, started) ==
    IF started /\ ~th[id].exists THEN [th EXCEPT ![id] = EmptyThumbDir] ELSE th

\* generateGalleryThumbnails(id, files), run from create and upload without await:
\* the jobs it parks, one per file whose thumbnail is missing
ThumbJobs(th, id, files) ==
    {Task("thumb", id, files[k], <<>>, "none", k) :
        k \in {j \in 1..Len(files) : ThumbStarts(th, id, files[j])}}

\* a parked generateThumbnail resumes: sharp has ended, the error is swallowed
ThumbJobDone ==
    /\ last = Idle
    /\ UNCHANGED logo
    /\ \E t \in inflight :
          /\ t.kind = "thumb"
          /\ thumbnails' = SharpThumb(uploads, thumbnails, t.id, t.file)
          /\ inflight' = inflight \ {t}
          /\ last' = Out("thumb.job", t.id, t.file, 0, None, <<>>, 0, 1)
          /\ UNCHANGED <<galleries, persisted, uploads, backgrounds, ogcache, allocated, budget>>

\* the tail of GET .../photo/:filename: the thumbnail if there is one, else the original
ServePhoto(op, th, id, f, wantThumb, gens) ==
    IF f \in DotPaths
    THEN ServeDirectory(op, id, f, gens)
    ELSE IF wantThumb /\ ThumbExists(th, id, f)
    THEN ServeFile(op, id, f, th[id].files[f], gens)
    ELSE IF ~OriginalExists(uploads, id, f)
    THEN Out(op, id, f, 404, None, <<>>, 0, gens)
    ELSE ServeFile(op, id, f, Orig(uploads[id].files[f]), gens)

\* GET /api/gallery/:galleryId/photo/:filename (?thumb=1)
GetPhoto(u) ==
    /\ Ready(u)
    /\ UNCHANGED logo
    /\ \E id \in u.ids, f \in u.files, wantThumb \in BOOLEAN :
          LET op == IF wantThumb THEN "photoThumb" ELSE "photo"
          IN IF ~validateGalleryId(id) THEN Reply(op, id, f, 400, None, <<>>)
             ELSE IF ~validateFilename(f) THEN Reply(op, id, f, 400, None, <<>>)
             ELSE IF wantThumb /\ (f \in DotPaths \/ ThumbStarts(thumbnails, id, f))
             THEN \/ /\ ReadyAsync(u)
                     /\ thumbnails' = MkThumbDir(thumbnails, id, TRUE)
                     /\ inflight' = inflight \cup
                           {Task("photoThumb", id, f, <<>>, "none", 0)}
                     /\ last' = Idle
                     /\ UNCHANGED <<galleries, persisted, uploads, backgrounds, ogcache,
                                    allocated>>
                     /\ Spend
                  \* a toFile(dest) of this thumbnail is under way: sharp has created
                  \* dest and is writing it, existsSync(thumbPath) may already be true
                  \/ /\ \E t \in inflight : /\ t.kind \in {"thumb", "photoThumb"}
                                            /\ t.id = id
                                            /\ t.file = f
                     /\ f \notin DotPaths
                     /\ SharpThumb(uploads, thumbnails, id, f) # thumbnails
                     /\ last' = ServeFile(op, id, f,
                                [Thumb(uploads[id].files[f]) EXCEPT !.from = "partial"], 0)
                     /\ UNCHANGED <<galleries, persisted, uploads, thumbnails, backgrounds,
                                    ogcache, inflight, allocated, budget>>
             ELSE /\ last' = ServePhoto(op, thumbnails, id, f, wantThumb, 0)
                  /\ UNCHANGED <<galleries, persisted, uploads, thumbnails, backgrounds,
                                 ogcache, inflight, allocated, budget>>

\* the photo route resumes after await generateThumbnail(...)
GetPhotoDone ==
    /\ last = Idle
    /\ UNCHANGED logo
    /\ \E t \in inflight :
          /\ t.kind = "photoThumb"
          /\ thumbnails' = IF t.file \in DotPaths
                            THEN thumbnails
                            ELSE SharpThumb(uploads, thumbnails, t.id, t.file)
          /\ inflight' = inflight \ {t}
          /\ last' = ServePhoto("photoThumb", thumbnails', t.id, t.file, TRUE, 1)
          /\ UNCHANGED <<galleries, persisted, uploads, backgrounds, ogcache, allocated, budget>>

\* ------------------------------------------------------------ social preview

\* what sharp(sourceFile) reads when it runs: the bytes, or "none" when it cannot decode
OgSource(t) ==
    IF t.bytes = "bg"
    THEN (IF backgrounds[t.file] # None THEN backgrounds[t.file].of ELSE "none")
    ELSE (IF OriginalExists(uploads, t.id, t.file) /\ Decodable(uploads[t.id].files[t.file])
          THEN uploads[t.id].files[t.file] ELSE "none")

\* GET /api/gallery/:galleryId/og-image up to its await
\* (readdirSync throwing inside the async handler rejects its promise: no response)
OgImage(u) ==
    /\ Ready(u)
    /\ UNCHANGED logo
    /\ \E id \in u.ids :
          LET bgFile == BgFind(backgrounds, id)
              park(from, file) ==
                  /\ ReadyAsync(u)
                  /\ inflight' = inflight \cup
                        {Task("og", id, file, <<>>, from, 0)}
                  /\ last' = Idle
                  /\ UNCHANGED <<galleries, persisted, uploads, thumbnails, backgrounds,
                                 ogcache, allocated>>
                  /\ Spend
          IN IF ~validateGalleryId(id) THEN Reply("og", id, NoName, 400, None, <<>>)
             ELSE IF ogcache[id] # None THEN Reply("og", id, NoName, 200, ogcache[id], <<>>)
             ELSE \/ IF bgFile # NoName THEN park("bg", bgFile)
                     ELSE IF ~UploadExists(uploads, id)
                     THEN Reply("og", id, NoName, 404, None, <<>>)
                     ELSE IF ~IsDirectory(uploads, id)
                     THEN Reply("og.rejected", id, NoName, 0, None, <<>>)
                     ELSE IF ListOriginals(uploads[id]) = <<>>
                     THEN Reply("og", id, NoName, 404, None, <<>>)
                     ELSE park("orig", ListOriginals(uploads[id])[1])
                  \* a toFile(cacheFile) of this preview is under way: sharp has created
                  \* cacheFile and is writing it, existsSync(cacheFile) may already be true
                  \/ \E t \in inflight :
                        /\ t.kind = "og"
                        /\ t.id = id
                        /\ OgSource(t) # "none"
                        /\ Reply("og", id, NoName, 200,
                                 [OgOf(t.bytes, OgSource(t)) EXCEPT !.from = "partial"], <<>>)

\* the og-image route resumes after await sharp(...).toFile(cacheFile)
OgImageDone ==
    /\ last = Idle
    /\ UNCHANGED logo
    /\ \E t \in inflight :
          /\ t.kind = "og"
          /\ inflight' = inflight \ {t}
          /\ IF OgSource(t) # "none"
             THEN /\ ogcache' = [ogcache EXCEPT ![t.id] = OgOf(t.bytes, OgSource(t))]
                  /\ last' = Out("og", t.id, NoName, 200, ogcache'[t.id], <<>>, 0, 1)
             ELSE /\ ogcache' = ogcache
                  /\ last' = Out("og", t.id, NoName, 500, None, <<>>, 0, 1)
          /\ UNCHANGED <<galleries, persisted, uploads, thumbnails, backgrounds, allocated, budget>>

\* ------------------------------------------------------------ background

\* req.file of uploadBackground.single('background'): none sent, refused by the
\* extension filter, over MAX_BACKGROUND_BYTES, or held in memory
BgInputs == {[kind |-> "none", bytes |-> "none"], [kind |-> "type", bytes |-> "junk"],
             [kind |-> "size", bytes |-> "img1"]}
            \cup {[kind |-> "ok", bytes |-> b] : b \in BgBytes}

\* the synchronous head of the try block: the old background and the cached preview go
DropOldBackground(bg, id) ==
    IF BgFind(bg, id) # NoName THEN [bg EXCEPT ![BgFind(bg, id)] = None] ELSE bg

\* a background write that keeps the cached preview
DropOgCacheNot(og, id) == og
DropOgCache(og, id) == [og EXCEPT ![id] = None]

\* POST /api/gallery/:galleryId/background up to its await
SetBackground(u) ==
    /\ Ready(u)
    /\ UNCHANGED logo
    /\ \E pw \in u.pws, id \in u.ids, file \in BgInputs :
          IF ~requireAuth(pw) THEN Reply("background", id, NoName, 401, None, <<>>)
          ELSE IF ~validateGalleryId(id) THEN Reply("background", id, NoName, 400, None, <<>>)
          ELSE IF file.kind = "type" THEN Reply("background", id, NoName, 500, None, <<>>)
          ELSE IF file.kind = "size" THEN Reply("background", id, NoName, 413, None, <<>>)
          ELSE IF id \notin DOMAIN galleries THEN Reply("background", id, NoName, 404, None, <<>>)
          ELSE IF file.kind = "none" THEN Reply("background", id, NoName, 400, None, <<>>)
          ELSE /\ ReadyAsync(u)
               /\ backgrounds' = DropOldBackground(backgrounds, id)
               /\ ogcache' = DropOgCache(ogcache, id)
               /\ inflight' = inflight \cup
                     {Task("background", id, NoName, Found(id, <<"backgrounds", "og-cache">>),
                           file.bytes, 0)}
               /\ last' = Idle
               /\ UNCHANGED <<galleries, persisted, uploads, thumbnails, allocated>>
               /\ Spend

\* the background route resumes after await sharp(req.file.buffer)...toFile(dest)
SetBackgroundDone ==
    /\ last = Idle
    /\ UNCHANGED logo
    /\ \E t \in inflight :
          /\ t.kind = "background"
          /\ inflight' = inflight \ {t}
          /\ IF Decodable(t.bytes)
             THEN /\ backgrounds' = [backgrounds EXCEPT ![t.id] = Normalized(t.bytes)]
                  /\ galleries' = IF t.id \in DOMAIN galleries
                                  THEN [galleries EXCEPT ![t.id].background = t.id \o DotJpg]
                                  ELSE galleries
                  /\ persisted' = saveGalleries(galleries')
                  /\ last' = Out("background", t.id, NoName, 200, None, t.done, 1, 1)
             ELSE /\ UNCHANGED <<backgrounds, galleries, persisted>>
                  /\ last' = Out("background", t.id, NoName, 500, None, t.done, 0, 1)
          /\ UNCHANGED <<uploads, thumbnails, ogcache, allocated, budget>>

\* ------------------------------------------------------------ photo uploads

\* one part of a multipart upload: its originalname, whether its MIME type starts
\* with image/, whether it is longer than MAX_PHOTO_BYTES, and its bytes
FileInputs ==
    {[raw |-> <<"a">>, mimeImage |-> TRUE, tooBig |-> FALSE, bytes |-> b] : b \in PhotoBytes}
    \cup {[raw |-> r, mimeImage |-> TRUE, tooBig |-> FALSE, bytes |-> "img1"] :
             r \in RawNames \ {<<"a">>}}
    \cup {[raw |-> <<"a">>, mimeImage |-> FALSE, tooBig |-> FALSE, bytes |-> "junk"],
          [raw |-> <<"a">>, mimeImage |-> TRUE, tooBig |-> TRUE, bytes |-> "img1"]}

\* path.extname(originalname).toLowerCase().slice(1) of the names of RawNames: none has a dot
ExtOf(raw) == <<>>
\* /jpeg|jpg|png|gif|webp|tiff|bmp|raw|cr2|nef|arw/i.test(ext): every alternative has 3+ letters
AllowedExt(ext) == Len(ext) >= 3
\* fileFilter of upload
fileFilter(file) == AllowedExt(ExtOf(file.raw)) \/ file.mimeImage

RECURSIVE Unlink(_, _)
\* multer removes the files of an aborted request (storage._removeFile on each)
Unlink(files, names) ==
    IF names = <<>> THEN files
    ELSE Unlink([files EXCEPT ![Head(names)] = "none"], Tail(names))

\* uuidv4() does not return an id it returned before, nor one present on disk
FreshId(id) ==
    /\ id \notin allocated
    /\ id \notin DOMAIN galleries
    /\ ~UploadExists(uploads, id)
    /\ ~thumbnails[id].exists
    /\ backgrounds[id] = None
    /\ ogcache[id] = None

Skeleton(id) == Record(id, <<>>, "now", <<>>, <<>>)

\* POST /api/gallery/create: requireAuth, generateGalleryId; multer takes over
CreateGallery(u) ==
    /\ Ready(u)
    /\ UNCHANGED logo
    /\ \E pw \in u.pws :
          IF ~requireAuth(pw) THEN Reply("create", NoName, NoName, 401, None, <<>>)
          ELSE /\ ReadyAsync(u)
               /\ \E id \in u.gen :
                     /\ FreshId(id)
                     /\ galleries' = MapSet(galleries, id, Skeleton(id))
                     /\ allocated' = allocated \cup {id}
                     /\ Spend
                     /\ inflight' = inflight \cup {Task("create", id, NoName, <<>>, "none", 0)}
                     /\ last' = Idle
                     /\ UNCHANGED <<persisted, fsVars>>

\* POST /api/gallery/:galleryId/upload: requireAuth, validateGalleryId; multer takes over
AddPhotos(u) ==
    /\ Ready(u)
    /\ UNCHANGED logo
    /\ \E pw \in u.pws, id \in u.ids :
          IF ~requireAuth(pw) THEN Reply("upload", id, NoName, 401, None, <<>>)
          ELSE IF ~validateGalleryId(id) THEN Reply("upload", id, NoName, 400, None, <<>>)
          ELSE /\ ReadyAsync(u)
               /\ inflight' = inflight \cup {Task("upload", id, NoName, <<>>, "none", 0)}
               /\ last' = Idle
               /\ UNCHANGED <<galleries, persisted, fsVars, allocated>>
               /\ Spend

\* multer takes the next file part of an upload as it arrives: fileFilter, destination
\* (mkdir), filename (sanitised), the write; a refused or oversized file aborts the
\* request, multer unlinks what the request stored and the error handler answers
MulterFile(u) ==
    /\ last = Idle
    /\ UNCHANGED logo
    /\ \E t \in inflight, file \in u.parts :
          /\ t.kind \in {"create", "upload"}
          /\ t.n < MaxFiles
          /\ t.id \in DOMAIN galleries => Len(galleries[t.id].files) + t.n < MaxIndexed
          /\ LET safeName == Sanitize(file.raw)
                 made == IF UploadExists(uploads, t.id) THEN uploads[t.id] ELSE DirEntry(NoFiles)
                 abort(up, status) ==
                     /\ uploads' = up
                     /\ inflight' = inflight \ {t}
                     /\ last' = Out(t.kind, t.id, NoName, status, None, <<>>, 0, 0)
             IN IF ~fileFilter(file)
                THEN abort(IF IsDirectory(uploads, t.id)
                           THEN [uploads EXCEPT ![t.id].files = Unlink(@, t.done)]
                           ELSE uploads, 500)
                ELSE IF made.kind # "dir" THEN abort(uploads, 500)
                ELSE IF file.tooBig
                THEN abort([uploads EXCEPT
                               ![t.id] = DirEntry(Unlink(made.files, Append(t.done, safeName)))],
                           413)
                ELSE /\ uploads' = [uploads EXCEPT
                                       ![t.id] = DirEntry([made.files EXCEPT ![safeName] = file.bytes])]
                     /\ inflight' = (inflight \ {t}) \cup
                           {[t EXCEPT !.n = t.n + 1, !.done = Append(t.done, safeName)]}
                     /\ last' = Out("multer.file", t.id, safeName, 0, None, <<>>, 0, 0)
          /\ UNCHANGED <<galleries, persisted, thumbnails, backgrounds, ogcache, allocated, budget>>

\* every originalname of up to MaxNameLen characters out of: a letter of each case,
\* a digit, the three other characters that stay, a separator and a blank
RawStrings ==
    UNION {[1..n -> {"a", "Z", "7", ".", "-", "_", "/", " "}] : n \in 0..MaxNameLen}

\* multer asks storage.filename for the name of a part: the callback looks at
\* file.originalname only and hands the name to cb
StoreName ==
    /\ last = Idle
    /\ UNCHANGED logo
    /\ inflight = {}
    /\ budget = MaxRequests
    /\ \E raw \in RawStrings :
          last' = Out("storage.filename", NoName, Sanitize(raw), 0, None, raw, 0, 0)
    /\ UNCHANGED <<galleries, persisted, fsVars, inflight, allocated, budget>>

\* the skeleton record of a request without files goes
DropSkeleton(g, id) == MapDelete(g, id)

\* the handler of POST /api/gallery/create, after multer has taken the last part
CreateGalleryDone(u) ==
    /\ last = Idle
    /\ UNCHANGED logo
    /\ \E t \in inflight, name \in u.names :
          /\ t.kind = "create"
          /\ IF t.done = <<>>
             THEN /\ galleries' = DropSkeleton(galleries, t.id)
                  /\ persisted' = saveGalleries(galleries')
                  /\ inflight' = inflight \ {t}
                  /\ last' = Out("create", t.id, NoName, 400, None, <<>>, 1, 0)
                  /\ UNCHANGED thumbnails
             ELSE IF t.id \in DOMAIN galleries
             THEN /\ galleries' = [galleries EXCEPT ![t.id].files = t.done,
                                                    ![t.id].eventName = EventNameOf(name)]
                  /\ persisted' = saveGalleries(galleries')
                  /\ thumbnails' = MkThumbDir(thumbnails, t.id,
                                              ThumbJobs(thumbnails, t.id, t.done) # {})
                  /\ inflight' = (inflight \ {t}) \cup ThumbJobs(thumbnails, t.id, t.done)
                  /\ last' = Out("create", t.id, NoName, 200, None, t.done, 1, 0)
             ELSE /\ UNCHANGED <<galleries, persisted, thumbnails>>
                  /\ inflight' = inflight \ {t}
                  /\ last' = Out("create", t.id, NoName, 200, None, t.done, 0, 0)
          /\ UNCHANGED <<uploads, backgrounds, ogcache, allocated, budget>>

\* the handler of POST /api/gallery/:galleryId/upload, after multer has taken the last part
AddPhotosDone ==
    /\ last = Idle
    /\ UNCHANGED logo
    /\ \E t \in inflight :
          /\ t.kind = "upload"
          /\ IF t.id \notin DOMAIN galleries
             THEN /\ inflight' = inflight \ {t}
                  /\ last' = Out("upload", t.id, NoName, 404, None, <<>>, 0, 0)
                  /\ UNCHANGED <<galleries, persisted, thumbnails>>
             ELSE /\ galleries' = [galleries EXCEPT ![t.id].files = @ \o t.done]
                  /\ persisted' = saveGalleries(galleries')
                  /\ thumbnails' = MkThumbDir(thumbnails, t.id,
                                              ThumbJobs(thumbnails, t.id, t.done) # {})
                  /\ inflight' = (inflight \ {t}) \cup ThumbJobs(thumbnails, t.id, t.done)
                  /\ last' = Out("upload", t.id, NoName, 200, None, galleries'[t.id].files, 1, 0)
          /\ UNCHANGED <<uploads, backgrounds, ogcache, allocated, budget>>

\* ------------------------------------------------- out-of-band file changes

\* what somebody copies into uploads/ by hand
HandMade ==
    {DirEntry(NoFiles), DirEntry([NoFiles EXCEPT ![<<"a">>] = "img1"]), FileEntry,
     DirEntry([NoFiles EXCEPT ![DotFile] = "junk"]),
     DirEntry([NoFiles EXCEPT ![DotFile] = "junk", ![<<"a">>] = "img1"])}

EnvCreate(u) ==
    /\ Ready(u)
    /\ UNCHANGED logo
    /\ \E d \in u.dirs, e \in HandMade :
          /\ ~UploadExists(uploads, d)
          /\ uploads' = [uploads EXCEPT ![d] = e]
          /\ last' = Idle
    /\ UNCHANGED <<galleries, persisted, thumbnails, backgrounds, ogcache, inflight, allocated>>
    /\ Spend

EnvRemove(u) ==
    /\ Ready(u)
    /\ UNCHANGED logo
    /\ \E d \in u.dirs :
          /\ UploadExists(uploads, d)
          /\ uploads' = [uploads EXCEPT ![d] = AbsentEntry]
          /\ last' = Idle
    /\ UNCHANGED <<galleries, persisted, thumbnails, backgrounds, ogcache, inflight, allocated>>
    /\ Spend

\* ------------------------------------------------------------ specification

Next(u) ==
    \/ Startup
    \/ Settle
    \/ DeleteGallery(u)
    \/ RenameGallery(u)
    \/ RenameKilled(u)
    \/ GetBackground(u)
    \/ ListPhotos(u)
    \/ DownloadPhoto(u)
    \/ Page(u)
    \/ Info(u)
    \/ DownloadZip(u)
    \/ ZipStat
    \/ ZipDone
    \/ ListGalleries(u)
    \/ GetPhoto(u)
    \/ GetPhotoDone
    \/ ThumbJobDone
    \/ OgImage(u)
    \/ OgImageDone
    \/ SetBackground(u)
    \/ SetBackgroundDone
    \/ CreateGallery(u)
    \/ AddPhotos(u)
    \/ MulterFile(u)
    \/ CreateGalleryDone(u)
    \/ AddPhotosDone
    \/ EnvCreate(u)
    \/ EnvRemove(u)

\* the ids a specification works with: one gallery and one malformed id; event
\* names are absent or short
OneGallery(conc) ==
    [conc |-> conc, ids |-> {idA, idV1}, gen |-> {idA}, dirs |-> {idA, idV1},
     pws |-> Passwords, files |-> ReqFiles, parts |-> FileInputs,
     names |-> {n \in NameInputs : Len(n.text) <= 1 /\ n.text # <<" ">>}]

\* one request at a time
Sequential == OneGallery(FALSE)

\* requests (and changes made by hand) interleave at the suspension points of the
\* handlers; every request names the gallery and its photo a, and comes from the
\* administrator
Concurrent ==
    [OneGallery(TRUE) EXCEPT !.ids = {idA}, !.dirs = {idA}, !.files = {<<"a">>},
                             !.pws = {[header |-> AdminPassword, query |-> ""]}]

Spec == Init /\ [][Next(Sequential)]_vars

\* one request at a time, with event names that are blank or longer than 200
\* characters among those supplied
Naming == [Sequential EXCEPT !.names = NameInputs]

SpecNames == Init /\ [][Next(Naming)]_vars

\* the upload routes, with the names that storage.filename can be asked for
NextUpload(u) ==
    \/ StoreName
    \/ Settle
    \/ CreateGallery(u)
    \/ AddPhotos(u)
    \/ MulterFile(u)
    \/ CreateGalleryDone(u)
    \/ AddPhotosDone
    \/ ThumbJobDone

SpecUpload == Init /\ [][NextUpload(Sequential)]_vars

SpecConc == Init /\ [][Next(Concurrent)]_vars

\* ZIP downloads, clients that leave, directories that are copied in or removed
\* while a download runs, and restarts of the process; the event loop keeps running
\* what is pending
NextZip(u) ==
    \/ Settle
    \/ DownloadZip(u)
    \/ ZipStat
    \/ ZipDone
    \/ ZipAbandon
    \/ Startup
    \/ EnvCreate(u)
    \/ EnvRemove(u)

SpecZip ==
    /\ Init
    /\ [][NextZip(Concurrent)]_vars
    /\ WF_vars(Settle) /\ WF_vars(ZipStat) /\ WF_vars(ZipDone)

\* the logo routes
NextLogo(u) ==
    \/ Settle
    \/ GetLogo
    \/ SetLogo(u)
    \/ ClearLogo(u)

SpecLogo == Init /\ [][NextLogo(Sequential)]_vars

\* clients that do not have the admin password: what they send in the header, or
\* in the query when they send no header, is not ADMIN_PASSWORD
Anonymous ==
    [Sequential EXCEPT
        !.pws = {pw \in Passwords :
                    (IF pw.header # "" THEN pw.header ELSE pw.query) # AdminPassword}]

\* the routes behind requireAuth
NextAnon(u) ==
    \/ Settle
    \/ CreateGallery(u)
    \/ AddPhotos(u)
    \/ SetBackground(u)
    \/ RenameGallery(u)
    \/ ListGalleries(u)
    \/ DeleteGallery(u)
    \/ SetLogo(u)
    \/ ClearLogo(u)

SpecAnon == Init /\ [][NextAnon(Anonymous)]_vars

\* one request at a time on the photos of one gallery, from the administrator: an
\* upload may replace an image by another image, store a file whose name starts
\* with a dot, or two files whose names become the same stored name; a read may
\* name a dot file, '.' or '..'
Photos ==
    [Sequential EXCEPT
        !.ids = {idA}, !.dirs = {idA},
        !.pws = {[header |-> AdminPassword, query |-> ""]},
        !.files = {<<"a">>, DotFile} \cup DotPaths,
        !.parts = {[raw |-> r, mimeImage |-> TRUE, tooBig |-> FALSE, bytes |-> "img1"] :
                      r \in RawNames \cup {DotFile}}
                  \cup {[raw |-> <<"a">>, mimeImage |-> TRUE, tooBig |-> FALSE,
                         bytes |-> "img2"]}]

NextPhotos(u) ==
    \/ Settle
    \/ AddPhotos(u)
    \/ MulterFile(u)
    \/ AddPhotosDone
    \/ ThumbJobDone
    \/ GetPhoto(u)
    \/ GetPhotoDone
    \/ DownloadPhoto(u)
    \/ ListPhotos(u)
    \/ ListGalleries(u)
    \/ DownloadZip(u)
    \/ ZipStat
    \/ ZipDone

SpecPhotos == Init /\ [][NextPhotos(Photos)]_vars

\* one request at a time from the administrator, on two galleries: idA, and idB
\* which is created during the run
TwoGalleries ==
    [Sequential EXCEPT !.ids = {idA, idB}, !.gen = {idB}, !.dirs = {idA},
                       !.pws = {[header |-> AdminPassword, query |-> ""]},
                       !.files = {<<"a">>},
                       !.names = {[given |-> TRUE, text |-> <<"E">>]}]

SpecTwo == Init /\ [][Next(TwoGalleries)]_vars

\* ------------------------------------------------------------- properties

\* the routes behind requireAuth that take a gallery id
AuthRoutes == {"delete", "rename", "background", "upload"}

\* C1: a step that handles a request whose id is not a UUID-v4 token answers 400
\* (401 when the route is behind requireAuth, which runs first, and the password is
\* wrong); it leaves the index and the four trees as they were, and no request with
\* such an id is ever suspended in a handler
InvalidIdRejected ==
    [][/\ \A t \in inflight' : IsUuidV4(t.id)
       /\ (last' # Idle /\ last'.id # NoName /\ ~IsUuidV4(last'.id))
            => /\ last'.status \in {400, 401}
               /\ last'.status = 401 => last'.op \in AuthRoutes
               /\ UNCHANGED <<galleries, persisted, uploads, thumbnails, backgrounds,
                              ogcache, inflight>>]_vars

\* a directory with a malformed name and a photo lies under uploads/, and the
\* authenticated attempt to delete it has just been answered 400
InvalidIdRejectedWitness ==
    /\ last.op = "delete"
    /\ last.id = idV1
    /\ last.status = 400
    /\ OriginalExists(uploads, idV1, <<"a">>)

\* the responses with which a create request ends without a stored file: no file
\* was sent (400), the type filter refused one (500), one was too long (413)
CreateFailed == last.op = "create" /\ last.status \in {400, 500, 413}

HasRecord(idx, id) == \E r \in idx.data : r.id = id

\* C2: when a create request has ended without a stored file, neither the Map nor
\* galleries.json has a record for the id of the request and there is nothing
\* under uploads/ for it
FailedCreateLeavesNothing ==
    CreateFailed =>
        /\ last.id \notin DOMAIN galleries
        /\ ~HasRecord(persisted, last.id)
        /\ ~UploadExists(uploads, last.id)

\* the skeleton record of a create request that multer aborted has been written to
\* galleries.json by a later save, and no request is running
SkeletonPersisted ==
    /\ inflight = {}
    /\ Skeleton(idA) \in persisted.data
    /\ idA \in DOMAIN galleries

\* C3: when a delete has been answered, uploads/<id>, thumbnails/<id>, the background
\* and the cached preview of the id are gone, neither the Map nor galleries.json has
\* its record, and a reconciliation pass (over the Map as it is, or over what a
\* restart loads) does not bring the record back
DeleteRemovesEverything ==
    (last.op = "delete" /\ last.status = 200) =>
        /\ Found(last.id, AllTrees) = <<>>
        /\ backgrounds[last.id] = None
        /\ last.id \notin DOMAIN galleries
        /\ ~HasRecord(persisted, last.id)
        /\ last.id \notin DOMAIN reconcileGalleries(galleries, uploads).galleries
        /\ last.id \notin DOMAIN reconcileGalleries(loadGalleries(persisted), uploads).galleries

\* the deleted gallery had originals, thumbnails, a background and a cached preview
DeleteRemovesEverythingWitness ==
    /\ last.op = "delete"
    /\ last.status = 200
    /\ last.list = AllTrees

\* the gallery directories under uploads/: the directories named by a UUID-v4 token
GalleryDirs(up) == {n \in AllNames : IsUuidV4(n) /\ IsDirectory(up, n)}

\* C4 as stated: after the reconciliation pass of a start the ids of the Map are
\* exactly the gallery directories under uploads/
ReconcileMatchesTree ==
    last.op = "startup" => DOMAIN galleries = GalleryDirs(uploads)

\* the pass of a start has kept the record of an id whose path under uploads/ is a
\* regular file
RecordWithoutDirectory ==
    /\ last.op = "startup"
    /\ idA \in DOMAIN galleries
    /\ uploads[idA].kind = "file"

\* C5: right after the reconciliation pass of a start a second pass changes no record
\* and does not write galleries.json
ReconcileIdempotent ==
    last.op = "startup" =>
        reconcileGalleries(galleries, uploads) = [galleries |-> galleries, changed |-> FALSE]

\* the first pass had something to do: it recovered a directory copied by hand
ReconcileIdempotentWitness ==
    /\ last.op = "startup"
    /\ last.saves = 1
    /\ idA \in DOMAIN galleries
    /\ galleries[idA].eventName = UntitledEvent

Listed == last.op = "list" /\ last.status = 200

PreviewOf(bg, id) == OgOf("bg", bg[id].of)

\* C7: when a background write has been answered 200 the cached preview of the
\* gallery is absent, and a preview answered for a gallery that has a background is
\* made of that background, never of an earlier one or of a photo
PreviewFollowsBackground ==
    /\ (last.op = "background" /\ last.status = 200) => ogcache[last.id] = None
    /\ (last.op = "og" /\ last.status = 200 /\ backgrounds[last.id] # None)
          => /\ last.served = PreviewOf(backgrounds, last.id)
             /\ ogcache[last.id] = last.served

\* a background write that found a background and a cached preview to replace has
\* been answered 200
PreviewFollowsBackgroundWitness ==
    /\ last.op = "background"
    /\ last.status = 200
    /\ last.list = <<"backgrounds", "og-cache">>
    /\ backgrounds[last.id] = Normalized("img2")

\* C8: a background request whose image does not decode changes neither the
\* background, nor the cached preview, nor the record: not when the handler starts
\* (the step that parks it at its await), not when sharp has failed
BackgroundFailureAtomic ==
    [][/\ (\E t \in inflight' \ inflight : t.kind = "background" /\ ~Decodable(t.bytes))
            => UNCHANGED <<backgrounds, ogcache, galleries, persisted>>
       /\ (last'.op = "background" /\ last'.status = 500 /\ last'.gens = 1)
            => UNCHANGED <<backgrounds, ogcache, galleries, persisted>>]_vars

\* a background request has failed in sharp after it removed the background and
\* the cached preview that the gallery had; the record still names the background
BackgroundLost ==
    /\ last.op = "background"
    /\ last.status = 500
    /\ last.list = <<"backgrounds", "og-cache">>
    /\ backgrounds[last.id] = None
    /\ ogcache[last.id] = None
    /\ last.id \in DOMAIN galleries
    /\ galleries[last.id].background = last.id \o DotJpg

ThumbCalls == {"photoThumb", "thumb.job"}

\* C9 as stated: a thumbnail call that generated is followed by calls that do not:
\* once generateThumbnail has run sharp for (id, filename), the next call for it
\* returns before sharp
ThumbnailOnce ==
    (last.op \in ThumbCalls /\ last.gens = 1) => ~ThumbStarts(thumbnails, last.id, last.file)

\* C9: a thumbnail call that generated from an original that decodes leaves the
\* thumbnail cached; and a request for a thumbnail that is cached generates
\* nothing, leaves thumbnails/ as it is and is answered with the cached file
ThumbnailOnceDecodable ==
    [][/\ (/\ last'.op \in ThumbCalls
           /\ last'.gens = 1
           /\ OriginalExists(uploads', last'.id, last'.file)
           /\ Decodable(uploads'[last'.id].files[last'.file]))
            => ThumbExists(thumbnails', last'.id, last'.file)
       /\ (/\ last'.op = "photoThumb"
           /\ IsUuidV4(last'.id)
           /\ validateFilename(last'.file)
           /\ ThumbExists(thumbnails, last'.id, last'.file))
            => /\ last'.gens = 0
               /\ thumbnails' = thumbnails
               /\ last'.served = thumbnails[last'.id].files[last'.file]]_vars

\* a request has just generated the thumbnail of a photo that had none, and got it
ThumbnailOnceDecodableWitness ==
    /\ last.op = "photoThumb"
    /\ last.gens = 1
    /\ last.served = Thumb("img1")
    /\ thumbnails[last.id].files[last.file] = Thumb("img1")

\* a thumbnail request for an original that is there and does not decode
JunkThumbRequest ==
    /\ last.op = "photoThumb"
    /\ IsUuidV4(last.id)
    /\ validateFilename(last.file)
    /\ OriginalExists(uploads, last.id, last.file)
    /\ ~Decodable(uploads[last.id].files[last.file])

\* C10 as stated: a thumbnail request for an original that is there and does not
\* decode is answered 200 with the original; and a thumbnail request is answered
\* 404 only when the original is absent
JunkServedAsOriginal ==
    /\ JunkThumbRequest
          => /\ last.status = 200
             /\ last.served = Orig(uploads[last.id].files[last.file])
    /\ (last.op = "photoThumb" /\ last.status = 404)
          => ~OriginalExists(uploads, last.id, last.file)

\* a thumbnail request for an original that does not decode has been answered with
\* the thumbnail of the image that was stored under that name before
StaleThumbnailServed ==
    /\ JunkThumbRequest
    /\ last.status = 200
    /\ last.served = Thumb("img1")
    /\ last.id \in DOMAIN galleries
    /\ galleries[last.id].files = <<last.file, last.file>>

\* f is the first entry of the photo listing of uploads/<id>: it is there, it is no
\* dot file, and every entry that readdirSync returns before it is a dot file
FirstListed(up, id, f) ==
    /\ IsDirectory(up, id)
    /\ \E k \in 1..Len(FileOrder) :
          /\ FileOrder[k] = f
          /\ up[id].files[f] # "none"
          /\ ~StartsWith(f, <<".">>)
          /\ \A j \in 1..(k - 1) :
                up[id].files[FileOrder[j]] # "none" => StartsWith(FileOrder[j], <<".">>)

\* the gallery has no background and no photo that is listed
NoPreviewSource(bg, up, id) == bg[id] = None /\ ~\E f \in FileNames : FirstListed(up, id, f)

\* C11 as stated: a preview request for a valid id without cached preview takes the
\* background as its source when there is one and else the first listed photo, and
\* the preview that comes out is made of that source and cached; the request is
\* answered 404, with og-cache/ untouched, exactly when the gallery has neither
PreviewSourceChosen ==
    [][\A id \in AllNames :
          (IsUuidV4(id) /\ ogcache[id] = None) =>
             /\ \A t \in inflight' \ inflight :
                   (t.kind = "og" /\ t.id = id) =>
                      IF backgrounds[id] # None
                      THEN t.bytes = "bg" /\ t.file = id
                      ELSE t.bytes = "orig" /\ FirstListed(uploads, id, t.file)
             /\ (last'.op = "og" /\ last'.id = id /\ last'.status = 200) =>
                   /\ ogcache'[id] = last'.served
                   /\ IF backgrounds[id] # None
                      THEN last'.served = OgOf("bg", backgrounds[id].of)
                      ELSE \E f \in FileNames :
                              /\ FirstListed(uploads, id, f)
                              /\ last'.served = OgOf("orig", uploads[id].files[f])
             /\ (last'.op = "og" /\ last'.id = id /\ last'.status = 404) =>
                   /\ NoPreviewSource(backgrounds, uploads, id)
                   /\ ogcache' = ogcache
                   /\ inflight' = inflight
             /\ (/\ last'.op \in {"og", "og.rejected"}
                 /\ last'.id = id
                 /\ last'.gens = 0
                 /\ NoPreviewSource(backgrounds, uploads, id))
                   => last'.op = "og" /\ last'.status = 404]_vars

\* a preview request for a gallery without background whose path under uploads/ is
\* a regular file has ended without a response
PreviewRequestUnanswered ==
    /\ last.op = "og.rejected"
    /\ IsUuidV4(last.id)
    /\ uploads[last.id].kind = "file"
    /\ NoPreviewSource(backgrounds, uploads, last.id)
    /\ ogcache[last.id] = None

ZipNeverTruncated ==
    [][\A t \in inflight \ inflight' :
          (t.kind = "zip" /\ last'.op = "zip" /\ last'.id = t.id /\ last'.status = 200)
             => Len(last'.list) = t.n]_vars

\* a ZIP request has been answered with an archive that ended normally and has no
\* entry: the handler starts no archive for an empty listing, so the listed files
\* went while the request was suspended
ZipTruncated ==
    /\ last.op = "zip"
    /\ last.status = 200
    /\ last.list = <<>>

\* C14 as stated: whenever a response has just been sent, galleries.json holds
\* exactly the records of the Map: loading it gives the Map back
SavedAtResponse ==
    (last.status # 0 /\ last.op # "zip.crashed") => loadGalleries(persisted) = galleries

\* a create request has been answered by the error handler while the record that
\* generateGalleryId put in the Map is in no saved file
ResponseBeforeSave ==
    /\ last.op = "create"
    /\ last.status \in {500, 413}
    /\ last.id \in DOMAIN galleries
    /\ galleries[last.id] = Skeleton(last.id)
    /\ loadGalleries(persisted) = NoGalleries

\* C15 as stated: galleries.json never changes into anything but the complete text
\* of the Map: there is no instant, not even when the process is stopped inside a
\* save, at which the file holds a part of a text
SaveNeverTorn ==
    [][persisted' # persisted => persisted' = saveGalleries(galleries')]_vars

\* the process was stopped inside saveGalleries and galleries.json, which held the
\* record of a gallery, is a text that does not parse
IndexTorn ==
    /\ last.op = "rename.killed"
    /\ persisted.kind = "unparsable"
    /\ IsDirectory(uploads, last.id)

\* C16 as stated: a start never fails, and a start over a galleries.json that is
\* anything but the text of a saved Map takes no record from it: the Map is what
\* the reconciliation pass makes of the empty Map
LoadTolerant ==
    [][last'.op \in {"startup", "startup.crashed"} =>
          /\ last'.op = "startup"
          /\ persisted.kind # "ok" =>
                galleries' = reconcileGalleries(NoGalleries, uploads).galleries]_vars

\* a restart over a galleries.json with a record that has no id has ended the
\* process before it listens
StartupCrashed ==
    /\ last.op = "startup.crashed"
    /\ persisted.kind = "noid"
    /\ budget < MaxRequests

\* C17 as stated: right after the reconciliation pass of a start, and when an
\* upload (into a new or an existing gallery) has been answered 200, the files
\* array of every record names each listed file of the gallery directory once and
\* nothing else
IndexMatchesDisk ==
    (last.op = "startup" \/ (last.op \in {"create", "upload"} /\ last.status = 200)) =>
        \A id \in DOMAIN galleries :
           LET files == galleries[id].files
           IN /\ \A i, j \in DOMAIN files : files[i] = files[j] => i = j
              /\ {files[k] : k \in DOMAIN files}
                    = {f \in FileNames : /\ OriginalExists(uploads, id, f)
                                         /\ ~StartsWith(f, <<".">>)}

\* an upload of a photo under the name of a photo the gallery has was answered 200:
\* the directory has one file, the record names it twice
FileNamedTwice ==
    /\ last.op = "upload"
    /\ last.status = 200
    /\ last.id \in DOMAIN galleries
    /\ galleries[last.id].files = <<<<"a">>, <<"a">>>>
    /\ ListOriginals(uploads[last.id]) = <<<<"a">>>>

\* C18 as stated: every key of the Map and every id in galleries.json is a UUID-v4
\* token, a record is stored under its own id, and no two saved records share an id
IndexIdsValid ==
    /\ \A id \in DOMAIN galleries : IsUuidV4(id) /\ galleries[id].id = id
    /\ \A r \in persisted.data : IsUuidV4(r.id)
    /\ \A r, q \in persisted.data : r.id = q.id => r = q

\* a listing has given a directory whose name is no UUID-v4 token a record and
\* has saved it
InvalidIdIndexed ==
    /\ last.op = "list"
    /\ last.status = 200
    /\ idV1 \in DOMAIN galleries
    /\ HasRecord(persisted, idV1)
    /\ ~validateGalleryId(idV1)

FileRoutes == {"photo", "photoThumb", "downloadPhoto"}

\* C20: a request to a route with :filename whose name is empty or has a character
\* that is no letter, digit, '.', '-' or '_' is answered 400 and nothing is sent; it
\* changes no file, no directory (thumbnails/<id> is not made) and no record, and
\* no thumbnail generation is ever started for such a name
InvalidFilenameRejected ==
    [][LET safe(f) == /\ Len(f) >= 1
                      /\ \A i \in 1..Len(f) :
                            f[i] \in Lower \cup Upper \cup Digit \cup {".", "-", "_"}
       IN /\ \A t \in inflight' : t.kind = "photoThumb" => safe(t.file)
          /\ (last'.op \in FileRoutes /\ IsUuidV4(last'.id) /\ ~safe(last'.file)) =>
                /\ last'.status = 400
                /\ last'.served = None
                /\ UNCHANGED <<galleries, persisted, fsVars, inflight>>]_vars

\* a thumbnail was asked for under the originalname of a photo that was stored
\* under its rewritten name: the request was answered 400, not with that photo, and
\* the gallery still has no thumbnail directory
InvalidFilenameRejectedWitness ==
    /\ last.op = "photoThumb"
    /\ last.file = <<"*">>
    /\ last.status = 400
    /\ OriginalExists(uploads, last.id, Sanitize(<<"*">>))
    /\ ~thumbnails[last.id].exists

\* C21: a client whose password (the header, or the query parameter when there is
\* no header) is not the admin password gets 401 from each of the eight routes
\* behind requireAuth, and none of its requests changes the Map, galleries.json, a
\* file or directory of the four trees, the logo, or the ids handed out, or leaves
\* anything running
UnauthorizedChangesNothing ==
    [][/\ UNCHANGED <<galleries, persisted, fsVars, logo, allocated, inflight>>
       /\ last' # Idle =>
             /\ last'.op \in {"create", "upload", "background", "rename", "list", "delete",
                              "logo.set", "logo.clear"}
             /\ last'.status = 401]_vars

\* the delete of an existing gallery with a record and a photo was answered 401
UnauthorizedChangesNothingWitness ==
    /\ last.op = "delete"
    /\ last.status = 401
    /\ last.id \in DOMAIN galleries
    /\ OriginalExists(uploads, last.id, <<"a">>)

\* C22: after every step at most one logo<ext> exists. A logo upload answered 200
\* leaves exactly one: under the lower-cased extension of the uploaded name, with the
\* uploaded bytes. A reset answered 200 leaves none. GET /api/logo sends the custom
\* logo when there is one, and the bundled public/logo.svg otherwise
LogoSingleSlot ==
    [][LET has(lg) == {i \in 1..Len(LOGO_EXTS) : lg[i] # "none"}
       IN /\ Cardinality(has(logo')) <= 1
          /\ (last'.op = "logo.set" /\ last'.status = 200) =>
                \E i \in has(logo') :
                   /\ has(logo') = {i}
                   /\ LOGO_EXTS[i] = ToLowerCase(extname(last'.file))
                   /\ <<logo'[i]>> = last'.list
          /\ (last'.op = "logo.clear" /\ last'.status = 200) => has(logo') = {}
          /\ last'.op = "logo.get" =>
                /\ last'.status = 200
                /\ \A i \in has(logo') :
                      last'.served = [fmt |-> "logo", from |-> "custom", of |-> logo'[i]]
                /\ has(logo') = {} => last'.served.from = "public"]_vars

\* l.PNG was uploaded after a logo with other bytes, and is now the logo
LogoSingleSlotWitness ==
    /\ last.op = "logo.set"
    /\ last.status = 200
    /\ last.file = <<"l", ".", "P", "N", "G">>
    /\ logo[2] = "img2"
    /\ budget = MaxRequests - 2

\* C23: a listing answered 200 has exactly one entry for each directory that lies
\* under uploads/ when it is asked for, and none for anything else (a record
\* without directory, a regular file); the fileCount of an entry is the number of
\* files of the directory whose names do not start with '.', whatever the record
\* says; a directory that had no record has one afterwards, in the Map and in
\* galleries.json, with the files found on disk
ListingFromDisk ==
    [][(last'.op = "list" /\ last'.status = 200) =>
          LET dirs == {n \in AllNames : uploads[n].kind = "dir"}
              shown == {last'.list[k].id : k \in 1..Len(last'.list)}
              onDisk(n) == {f \in FileNames : uploads[n].files[f] # "none" /\ Head(f) # "."}
          IN /\ shown = dirs
             /\ Len(last'.list) = Cardinality(dirs)
             /\ \A k \in 1..Len(last'.list) :
                   last'.list[k].fileCount = Cardinality(onDisk(last'.list[k].id))
             /\ \A n \in dirs \ DOMAIN galleries :
                   /\ n \in DOMAIN galleries'
                   /\ galleries'[n].id = n
                   /\ {galleries'[n].files[k] : k \in 1..Len(galleries'[n].files)} = onDisk(n)
                   /\ galleries'[n] \in persisted'.data]_vars

\* a listing was answered whose entry for a gallery counts other files than the
\* record of the gallery names
ListingFromDiskWitness ==
    /\ Listed
    /\ \E k \in 1..Len(last.list) :
          /\ last.list[k].id \in DOMAIN galleries
          /\ last.list[k].fileCount # Len(galleries[last.list[k].id].files)

\* C24 as stated: the body of a response that reports a failure is a fixed text of
\* the program, never the message of the error that was raised
NoRawErrorDetail ==
    last.status >= 400 => last.served.from # "err.message"

\* a ZIP request was answered 500 with the message of the error the archiver raised
\* for a listed file it could not read (the message of a failed open names the
\* path of the file)
RawErrorSent ==
    /\ last.op = "zip"
    /\ last.status = 500
    /\ last.served.from = "err.message"
    /\ ~OriginalExists(uploads, last.id, last.served.of)

NameNeverEmpty ==
    [][(last'.op \in {"create", "rename"} /\ last'.status = 200) =>
          galleries'[last'.id].eventName # <<>>]_vars

\* a rename was answered 200 and galleries.json has the record with an empty
\* eventName
EmptyNameStored ==
    /\ last.op = "rename"
    /\ last.status = 200
    /\ galleries[last.id].eventName = <<>>
    /\ galleries[last.id] \in persisted.data

\* C26 as stated: the pass over uploads/ of a start, and the one of a listing,
\* writes galleries.json at most once, and not at all when it leaves the table as
\* it found it
ReconcileSavesOnce ==
    [][(last'.op \in {"startup", "list"} /\ last'.status \in {0, 200}) =>
          LET found == IF last'.op = "startup" THEN loadGalleries(persisted) ELSE galleries
          IN /\ last'.saves <= 1
             /\ found = galleries' => (last'.saves = 0 /\ persisted' = persisted)]_vars

\* a listing has written galleries.json twice: once for each of two directories
\* that had no record
ListingSavedTwice ==
    /\ last.op = "list"
    /\ last.status = 200
    /\ last.saves = 2
    /\ Cardinality(persisted.data) >= 2

\* C27 as stated: when the client of a ZIP download has gone away while a file of
\* the archive is open, that file is closed some time later
ZipHandlesReleased ==
    (\E t \in inflight : t.kind = "zip" /\ t.bytes = "paused")
        ~> (\A t \in inflight : t.kind = "zip" => t.bytes # "paused")

\* the client of a ZIP download is gone and the archive holds a file open that the
\* archiver was reading; the server is idle
ZipHandleLeftOpen ==
    /\ last = Idle
    /\ \E t \in inflight :
          /\ t.kind = "zip"
          /\ t.bytes = "paused"
          /\ OriginalExists(uploads, t.id, Head(t.done))

\* C28: a delete of a well-formed id is answered 200 whatever of the gallery is
\* there, and leaves nothing of it: no path under uploads/, no thumbnail directory,
\* no background, no cached preview, no record in the Map or in galleries.json. A
\* delete of an id of which nothing is left (as after a delete) changes no file,
\* no directory and no record
DeleteIdempotent ==
    [][(last'.op = "delete" /\ IsUuidV4(last'.id) /\ last'.status # 401) =>
          LET id == last'.id
              gone(up, th, bg, og, g, p) ==
                  /\ up[id].kind = "absent"
                  /\ ~th[id].exists
                  /\ \A n \in AllNames : StartsWith(n, id) => bg[n] = None
                  /\ og[id] = None
                  /\ id \notin DOMAIN g
                  /\ \A r \in p.data : r.id # id
          IN /\ last'.status = 200
             /\ gone(uploads', thumbnails', backgrounds', ogcache', galleries', persisted')
             /\ (/\ gone(uploads, thumbnails, backgrounds, ogcache, galleries, persisted)
                 /\ persisted = saveGalleries(galleries))
                   => UNCHANGED <<galleries, persisted, fsVars, inflight>>]_vars

\* a gallery that the server had created was deleted, and a second delete of its
\* id has been answered 200 after it found nothing to remove
DeleteIdempotentWitness ==
    /\ last.op = "delete"
    /\ last.status = 200
    /\ last.id \in allocated
    /\ last.list = <<>>
    /\ budget = MaxRequests - 2

\* C30 as stated: while an add-photos request for a well-formed id without record
\* is being handled nothing under uploads/ changes, and the request is answered 404
UnknownGalleryUploadWritesNothing ==
    [][/\ \A t \in inflight :
             (t.kind = "upload" /\ t.id \notin DOMAIN galleries) => uploads' = uploads
       /\ \A t \in inflight \ inflight' :
             (t.kind = "upload" /\ t.id \notin DOMAIN galleries /\ last'.op = "upload")
                => last'.status = 404]_vars

\* the only request since the start, an add-photos request for an id without
\* record, has been answered 404, and the photo it sent lies under uploads/<id>
UnknownGalleryUploadStored ==
    /\ last.op = "upload"
    /\ last.status = 404
    /\ last.id \notin DOMAIN galleries
    /\ OriginalExists(uploads, last.id, <<"a">>)
    /\ budget = MaxRequests - 1

\* C31 as stated: galleries.json never holds the record of a create request that is
\* still receiving its files, and every record in it that generateGalleryId made
\* names at least one file
PendingNeverPersisted ==
    /\ \A t \in inflight : t.kind = "create" => ~HasRecord(persisted, t.id)
    /\ \A r \in persisted.data : r.created = "now" => r.files # <<>>

\* while a create request is receiving its files, another request has saved the
\* Map: galleries.json holds the record of the pending gallery, without files
PendingPersisted ==
    \E t \in inflight :
       /\ t.kind = "create"
       /\ \E r \in persisted.data : r.id = t.id /\ r.files = <<>>

\* C32: once no background replacement and no preview generation of a gallery is
\* in progress, a cached preview of a gallery that has a background was generated
\* from that background, never from an earlier background or from the first original
CachedPreviewIsCurrent ==
    \A id \in DOMAIN ogcache :
       (/\ ~\E t \in inflight : t.id = id /\ t.kind \in {"og", "background"}
        /\ ogcache[id] # None
        /\ backgrounds[id] # None)
          => ogcache[id] = PreviewOf(backgrounds, id)

\* a preview request that ran while the replacement was suspended has left a preview
\* of the first original in the cache of a gallery whose new background is in place
StalePreviewCached ==
    /\ inflight = {}
    /\ last.op = "background"
    /\ last.status = 200
    /\ backgrounds[last.id] # None
    /\ ogcache[last.id] # None
    /\ ogcache[last.id] # PreviewOf(backgrounds, last.id)

\* C33: when a request for a gallery that was suspended in the generation of a
\* derivative (thumbnail generation, preview generation, background normalization)
\* completes after a delete has removed everything of that gallery, still nothing
\* of the gallery exists: no originals, no thumbnails, no background, no cached
\* preview, no record. (Such a request starts only when the gallery has an original
\* or a record, so nothing of the gallery being left means it was deleted since.)
DeleteOutlastsSuspended ==
    [][\A t \in inflight :
          LET id == t.id
              gone(up, th, bg, og, g, p) ==
                  /\ up[id].kind = "absent"
                  /\ ~th[id].exists
                  /\ \A n \in AllNames : StartsWith(n, id) => bg[n] = None
                  /\ og[id] = None
                  /\ id \notin DOMAIN g
                  /\ \A r \in p.data : r.id # id
          IN (/\ t \notin inflight'
              /\ t.kind \in {"thumb", "photoThumb", "og", "background"}
              /\ gone(uploads, thumbnails, backgrounds, ogcache, galleries, persisted))
                => gone(uploads', thumbnails', backgrounds', ogcache', galleries',
                        persisted')]_vars

\* a background normalization that was suspended across a delete has completed: the
\* gallery has no record and no originals, and has a background file
DeletedGalleryHasBackground ==
    /\ inflight = {}
    /\ last.op = "background"
    /\ last.status = 200
    /\ last.gens = 1
    /\ last.id \notin DOMAIN galleries
    /\ uploads[last.id].kind = "absent"
    /\ BgFind(backgrounds, last.id) # NoName

\* C34: a thumbnail or a social preview is answered from its cache file only when
\* the write of that file has ended: no answer carries a file that is being written
DerivativeServedComplete ==
    (last.op \in {"photoThumb", "og"} /\ last.status = 200) => last.served.from # "partial"

\* a thumbnail request has been answered with the file that the generation started
\* by another request, still in progress, is writing
PartialThumbnailServed ==
    /\ last.op = "photoThumb"
    /\ last.status = 200
    /\ last.served = [Thumb(uploads[last.id].files[last.file]) EXCEPT !.from = "partial"]
    /\ \E t \in inflight : t.kind \in {"thumb", "photoThumb"} /\ t.id = last.id /\ t.file = last.file
    /\ ~ThumbExists(thumbnails, last.id, last.file)

\* C35: a cached thumbnail of an original that is stored and decodes is the
\* thumbnail of the bytes now stored under that name
ThumbnailOfCurrentBytes ==
    \A id \in DOMAIN uploads : \A f \in FileNames :
       (/\ ThumbExists(thumbnails, id, f)
        /\ OriginalExists(uploads, id, f)
        /\ Decodable(uploads[id].files[f]))
          => thumbnails[id].files[f] = Thumb(uploads[id].files[f])

\* after an upload has replaced the image stored under a name by another image, a
\* thumbnail request for that name has been answered with the thumbnail of the
\* image that was replaced
OverwrittenThumbnailServed ==
    /\ last.op = "photoThumb"
    /\ last.status = 200
    /\ OriginalExists(uploads, last.id, last.file)
    /\ uploads[last.id].files[last.file] = "img2"
    /\ last.served = Thumb("img1")
    /\ inflight = {}

\* C36: a read of a photo whose id and filename pass the validators looks at
\* nothing but a file inside uploads/<id>: the path it tests and sends is never the
\* directory of the gallery or the directory uploads/ itself
ReadStaysInsideGallery ==
    (/\ last.op \in {"photo", "photoThumb", "downloadPhoto"}
     /\ validateGalleryId(last.id)
     /\ validateFilename(last.file))
       => last.list \notin {<<"uploads", last.id>>, <<"uploads">>}

\* a photo request that names '..' in a gallery of which nothing exists has passed
\* both validators and the existence test, and was answered from the directory
\* uploads/
ParentDirectoryRead ==
    /\ last.op = "photo"
    /\ last.file = <<".", ".">>
    /\ validateFilename(last.file)
    /\ ~UploadExists(uploads, last.id)
    /\ last.list = <<"uploads">>
    /\ last.served.from = "finalhandler"

\* C37: when an upload is answered 200, every file it stored has a name that the
\* filename validator accepts and that is in the listing of the gallery (the
\* listing is what the photo listing returns, what the file count counts and what
\* the ZIP holds), and the files of the request are stored under names of their own
StoredFilesVisible ==
    [][\A t \in inflight :
          (/\ t.kind = "upload"
           /\ t \notin inflight'
           /\ last'.op = "upload"
           /\ last'.status = 200)
             => LET listed == ListOriginals(uploads'[t.id])
                IN /\ \A k \in DOMAIN t.done :
                         /\ validateFilename(t.done[k])
                         /\ \E j \in DOMAIN listed : listed[j] = t.done[k]
                   /\ \A j, k \in DOMAIN t.done : j # k => t.done[j] # t.done[k]]_vars

\* a file that an upload stored under a name that starts with a dot is on disk and
\* in the record, its name passes the validator, the listing leaves it out and the
\* photo route does not send it
HiddenUploadNotRetrievable ==
    /\ last.op = "photo"
    /\ last.file = DotFile
    /\ last.status = 404
    /\ validateFilename(DotFile)
    /\ OriginalExists(uploads, last.id, DotFile)
    /\ last.id \in DOMAIN galleries
    /\ \E k \in DOMAIN galleries[last.id].files : galleries[last.id].files[k] = DotFile
    /\ ~\E j \in DOMAIN ListOriginals(uploads[last.id]) :
           ListOriginals(uploads[last.id])[j] = DotFile

\* C38: a step of an operation addressed to one gallery (its answer, its start, the
\* progress of its suspended work) leaves the originals, the thumbnails, the
\* background, the cached preview and the record (in the Map and in galleries.json)
\* of every other gallery as they were
OtherGalleryUntouched ==
    [][\A A \in AllNames : \A B \in AllNames \ {A} :
          (\/ (last' # last /\ last'.id = A)
           \/ \E t \in inflight' \ inflight : t.id = A)
             => /\ uploads'[B] = uploads[B]
                /\ thumbnails'[B] = thumbnails[B]
                /\ backgrounds'[B] = backgrounds[B]
                /\ ogcache'[B] = ogcache[B]
                /\ (B \in DOMAIN galleries') = (B \in DOMAIN galleries)
                /\ B \in DOMAIN galleries => galleries'[B] = galleries[B]
                /\ {r \in persisted'.data : r.id = B} = {r \in persisted.data : r.id = B}]_vars

\* the delete of gallery idA, of which there was something to remove, has written
\* into galleries.json the record that a refused create request had left in the Map
\* for idB
OtherRecordWritten ==
    /\ last.op = "delete"
    /\ last.id = idA
    /\ last.status = 200
    /\ last.list # <<>>
    /\ inflight = {}
    /\ ~UploadExists(uploads, idB)
    /\ \E r \in persisted.data : r.id = idB /\ r.files = <<>>

\* C39: a request gets one response: once the response of a ZIP download has
\* started (status 200 and headers sent, entries of the archive written), the
\* handler does not set a status or send a body again
OneResponseOnly ==
    ~(last.op = "zip.crashed" /\ last.status = 200)

\* the archive of a download had begun (status 200, the entries before the unreadable
\* file written) when the error listener sent its 500 answer on the same response:
\* the send threw, the process ended and took every suspended request with it
SecondResponseSent ==
    /\ last.op = "zip.crashed"
    /\ last.status = 200
    /\ Down
    /\ inflight = {}
    /\ IsDirectory(uploads, last.id) =>
          \A k \in DOMAIN last.list : OriginalExists(uploads, last.id, last.list[k])

====
